---- MODULE Spec2Model ----
(***************************************************************************)
(* hubfs.js: write coordination and commit batching of Hubfs.writeFile.    *)
(*                                                                         *)
(* One action is one run-to-completion callback of the JavaScript event    *)
(* loop: a writeFile call, the arrival of a store (GitHub API) response,   *)
(* the firing of the settle timer, or a setImmediate of async's queue or   *)
(* cargo.  The store is linearised at the arrival of each response.        *)
(***************************************************************************)
EXTENDS Integers, Sequences, FiniteSets, TLC

\* ------------------------------------------------------------------ bounds
MaxWrites == 3
MaxFails == 1
\* The writeFile calls of the specification that fills a batch, and the
\* readFile calls of the one that reads.
MaxBatchWrites == 12
MaxReads == 1
\* writeFile calls of the callers that fill the blob queue of a branch
MaxPoolWrites == 52

\* Program constants.
QueueConcurrency == 50
CargoPayload == 10

Paths == {"a.txt", "b.txt", "c.txt"}

\* The filenames callers pass: a path, or a path preceded by a slash.
Filenames == Paths \cup {"/a.txt"}
Branches == {"master", "dev"}
Instances == {"fs", "fs2", "bad"}

\* The options objects a caller passes, by the two fields line 181 and the
\* documentation name: flag (documented) and flags (read by the code).
OptionSets ==
    { [flag |-> "w", flags |-> "undefined"],
      [flag |-> "wx", flags |-> "undefined"],
      [flag |-> "w", flags |-> "wx"] }

VARIABLES
    calls,      \* sequence of the writeFile calls made so far (params and closures)
    pc,         \* per call made: where the write or read is
    cb,         \* per call: the sequence of results its callback has received
    tmp,        \* per call: params.sha / the commit fetched by _getBlobShaSlow /
                \* the data a readFile callback received
    statuses,   \* id -> status object {writing, queueing, next}
    queues,     \* id -> async.queue of blob conversions
    cargos,     \* id -> async.cargo of tree entries and its running _commit
    ref,        \* store: branch -> tip commit
    commits,    \* store: commit objects, [parent, tree]
    fails,      \* store failures injected so far
    everTip,    \* history: per branch, every commit that has been its tip
    env         \* the callers: the instances and paths in use, and whether calls
                \* are made only in one synchronous burst ("burst", and
                \* "closed" once another event has followed it: only the
                \* calls past the first env.burst ones are made after that)
                \* or at any time;
                \* the number of calls they make, whether they write contents
                \* above the size ceiling, whether the store answers the
                \* blob creates in the order of the requests and before the
                \* requests of a commit, whether options.safe is kept in the
                \* record of a call, and whether the options are kept in the
                \* record of a queued call; the branches written, and the
                \* branches of the calls planned as one synchronous loop;
                \* whether the reads follow the last writeFile call

vars == <<calls, pc, cb, tmp, statuses, queues, cargos, ref, commits, fails,
          everTip, env>>

\* More calls than any caller makes.
MaxCalls == MaxWrites + MaxBatchWrites + MaxReads + MaxPoolWrites

W == 1..MaxCalls

\* ---------------------------------------------------------------- helpers
Min(a, b) == IF a < b THEN a ELSE b

Lookup(map, id, dflt) == IF id \in DOMAIN map THEN map[id] ELSE dflt

Put(map, id, v) == [x \in DOMAIN map \cup {id} |-> IF x = id THEN v ELSE map[x]]

\* this._reponame = options.owner + '/' + options.repo: fs and fs2 are made
\* with the same options, bad names a repository that does not exist.
RepoName(inst) == IF inst = "bad" THEN "owner/repo123" ELSE "owner/repo"

RepoExists(repo) == repo = "owner/repo"

IdPerInstance(inst, branch) == <<inst, branch>>

IdIgnoresBranch(inst, branch) == <<RepoName(inst), "master">>

\* var id = this._reponame + '/' + options.branch
Id(inst, branch) == <<RepoName(inst), branch>>

\* statuses[id] || {}
NewStatus == [writing |-> FALSE, queueing |-> FALSE, next |-> FALSE]

\* queues[id] || async.queue(this._createBlob.bind(this), 50)
NewQueue == [tasks |-> <<>>, running |-> {}, paused |-> FALSE, imm |-> FALSE]

\* cargos[id] || async.cargo(cargoWorker, 10); cargoWorker closes over the
\* creating call's _this (its _repo) and options.branch
NewCargo(repo, branch) ==
    [tasks |-> <<>>, working |-> FALSE, imm |-> FALSE, batch |-> <<>>,
     step |-> "idle", base |-> 0, newTree |-> <<>>,
     tree |-> [p \in Filenames |-> <<>>], newc |-> 0,
     repo |-> repo, branch |-> branch]

\* ------------------------------------------------------------------ store
Absent == <<>>

\* The data of call w, a Buffer: data above the size ceiling is numbered from
\* 0 down, other data from 1 up.
Data(w) == IF calls[w].large THEN 0 - w ELSE w

\* params.content = data.toString('base64'), line 147; a blob's sha stands
\* for its content.
Content(w) == <<Data(w)>>

\* new Buffer(data.content, data.encoding), line 268.
Decode(content) == content[1]

\* The contents API serves no file above its size ceiling; the repository
\* starts with one such file.
TooLarge(content) == content # Absent /\ content[1] <= 0

InitTree == [p \in Filenames |-> IF p = "a.txt" THEN <<0>> ELSE Absent]

TipTree(branch) == commits[ref[branch]].tree

\* The contents API: one commit on top of the branch tip.
ContentsCommit(branch, path, content) ==
    /\ commits' = Append(commits,
                         [parent |-> ref[branch],
                          tree |-> [TipTree(branch) EXCEPT ![path] = content]])
    /\ ref' = [ref EXCEPT ![branch] = Len(commits) + 1]
    /\ everTip' = [everTip EXCEPT ![branch] = @ \cup {Len(commits) + 1}]

StoreUnchanged == UNCHANGED <<ref, commits, everTip>>

\* A store call on a repository that does not exist fails (404); on the
\* repository it answers with success, or fails while failures may be injected.
Outcomes(repo) ==
    IF ~RepoExists(repo) THEN {"404"}
    ELSE IF fails > 0 THEN {"ok", "fail"} ELSE {"ok"}

Answer(o) == fails' = IF o = "fail" THEN fails - 1 ELSE fails

\* The options a write still reads once routed: line 181 reads them on the
\* fast path, the batched path never does.
DefaultOptions == [flag |-> "w", flags |-> "undefined"]

\* Every step but a call: it follows the synchronous calls the callers planned.
Stepped ==
    /\ Len(calls) >= Len(env.plan)
    /\ env' = IF env.calling = "burst" THEN [env EXCEPT !.calling = "closed"] ELSE env

\* The calls made so far, and the writeFile and readFile calls among them.
Issued == 1..Len(calls)

\* A step that is an answer of the store or a timer firing: where the callers
\* let every answer arrive alone, the functions scheduled with setImmediate
\* have run before it.
Answered ==
    /\ Stepped
    /\ env.prompt =>
         \A id \in DOMAIN cargos : ~queues[id].imm /\ ~cargos[id].imm

Writes == {w \in Issued : calls[w].kind = "write"}

Reads == {w \in Issued : calls[w].kind = "read"}

\* -------------------------------------------------------------- async.queue
\* q.process: start waiting tasks while not paused and below the concurrency.
QueueStartsAll(q) == IF q.paused THEN {} ELSE {q.tasks[i] : i \in 1..Len(q.tasks)}

QueueStarted(q) ==
    LET n == IF q.paused THEN 0
             ELSE Min(Len(q.tasks), QueueConcurrency - Cardinality(q.running))
    IN  {q.tasks[i] : i \in 1..n}

QueueProcess(q) ==
    LET n == Cardinality(QueueStarted(q))
    IN  [q EXCEPT !.tasks = SubSeq(q.tasks, n + 1, Len(q.tasks)),
                  !.running = @ \cup QueueStarted(q)]

\* q.push: the task is appended and q.process is scheduled with setImmediate.
QueuePush(q, w) == [q EXCEPT !.tasks = Append(@, w), !.imm = TRUE]

NoPause(q) == q

\* q.pause
QueuePause(q) == [q EXCEPT !.paused = TRUE]

NoResume(q) == q

\* q.resume: no-op when not paused, else q.process is scheduled.
QueueResume(q) == IF q.paused THEN [q EXCEPT !.paused = FALSE, !.imm = TRUE] ELSE q

\* -------------------------------------------------------------- async.cargo
\* cargo.push: the entry is appended and cargo.process is scheduled.
CargoPush(c, entry) == [c EXCEPT !.tasks = Append(@, entry), !.imm = TRUE]

CargoProcessUnguarded(c) ==
    IF c.tasks = <<>> THEN c
    ELSE LET n == Min(Len(c.tasks), CargoPayload)
         IN  [c EXCEPT !.batch = SubSeq(c.tasks, 1, n),
                       !.tasks = SubSeq(c.tasks, n + 1, Len(c.tasks)),
                       !.working = TRUE,
                       !.step = "ref"]

CargoTakesAll(c) ==
    IF c.working \/ c.tasks = <<>> THEN c
    ELSE [c EXCEPT !.batch = c.tasks, !.tasks = <<>>, !.working = TRUE, !.step = "ref"]

\* cargo.process: one worker at a time takes up to payload entries and calls
\* cargoWorker, whose _commit starts with the branch ref fetch.
CargoProcess(c) ==
    IF c.working \/ c.tasks = <<>> THEN c
    ELSE LET n == Min(Len(c.tasks), CargoPayload)
         IN  [c EXCEPT !.batch = SubSeq(c.tasks, 1, n),
                       !.tasks = SubSeq(c.tasks, n + 1, Len(c.tasks)),
                       !.working = TRUE,
                       !.step = "ref"]

NoTmp == [sha |-> <<>>, commit |-> 0, tip |-> 0, data |-> {}]

\* A contents write is built by the store on the tip it read after the request
\* was sent: when the tip has moved since, the store may have read the old one
\* and then rejects the write as stale (409).
Tip(repo, branch) == IF RepoExists(repo) THEN ref[branch] ELSE 0

AddOutcomes(w) ==
    Outcomes(calls[w].repo)
      \cup (IF Tip(calls[w].repo, calls[w].branch) # tmp[w].tip THEN {"stale"} ELSE {})

\* ---------------------------------------------------------------- writeFile
\* filename.replace(/^\//, ''), lines 134 and 242, on the filenames in use.
StripSlash(filename) == IF filename = "/a.txt" THEN "a.txt" ELSE filename

\* Lines 134-144 and 242-248: replace returns the new string and the result is
\* not assigned, so params.path and contents(filename) get the filename as
\* passed.
SentPath(filename) == filename

\* Line 160, with the mutants of it used by the checks.
RouteIgnoresWriting(safe, status) == safe \/ status.queueing

RouteIgnoresSafe(safe, status) == status.writing \/ status.queueing

RouteQueued(safe, status) == safe \/ status.writing \/ status.queueing

NeverPause(status) == FALSE

PauseWhenBusy(status) == (status.writing \/ status.queueing) /\ ~status.next

\* Lines 152-158.
NeedsPause(status) == status.writing /\ ~status.next

WriteFile(inst, path, branch, safe, opts, large) ==
    LET w == Len(calls) + 1
        id == Id(inst, branch)
        status == Lookup(statuses, id, NewStatus)
        queue == Lookup(queues, id, NewQueue)
        cargo == Lookup(cargos, id, NewCargo(RepoName(inst), branch))
        status1 == IF NeedsPause(status) THEN [status EXCEPT !.next = TRUE] ELSE status
        queue1 == IF NeedsPause(status) THEN QueuePause(queue) ELSE queue
    IN  /\ Cardinality(Writes) < env.writes
        /\ large => env.large
        /\ env.calling = "closed" => Len(calls) >= env.burst
        /\ Len(calls) < Len(env.plan) => branch = env.plan[Len(calls) + 1]
        /\ inst \in env.insts
        /\ path \in env.paths
        /\ branch \in env.branches
        /\ calls' = Append(calls, [kind |-> "write", filename |-> path,
                                   path |-> SentPath(path),
                                   repo |-> RepoName(inst), id |-> id,
                                   branch |-> branch, large |-> large,
                                   safe |-> safe /\ env.track,
                                   options |-> IF RouteQueued(safe, status1) /\ ~env.keep
                                               THEN DefaultOptions ELSE opts])
        /\ cargos' = Put(cargos, id, cargo)
        /\ IF RouteQueued(safe, status1)
           THEN /\ statuses' = Put(statuses, id, [status1 EXCEPT !.queueing = TRUE])
                /\ queues' = Put(queues, id, QueuePush(queue1, w))
                /\ pc' = Append(pc, "queued")
                /\ tmp' = Append(tmp, NoTmp)
           ELSE /\ statuses' = Put(statuses, id, [status1 EXCEPT !.writing = TRUE])
                /\ queues' = Put(queues, id, queue1)
                /\ pc' = Append(pc, "add")
                /\ tmp' = Append(tmp, [NoTmp EXCEPT !.tip = Tip(RepoName(inst), branch)])
        /\ env' = [env EXCEPT !.used = @ \cup {inst}]
        /\ cb' = Append(cb, <<>>)
        /\ UNCHANGED fails
        /\ StoreUnchanged

\* ------------------------------------------------------------ the fast path
\* done(err), lines 189-198: the settle timer is set and the callback called;
\* status.writing stays true until the timer fires.
RetryOnError(w, result) ==
    IF result = "err"
    THEN pc' = [pc EXCEPT ![w] = "add"] /\ UNCHANGED <<cb, tmp>>
    ELSE /\ pc' = [pc EXCEPT ![w] = "settle"]
         /\ cb' = [cb EXCEPT ![w] = Append(@, result)]
         /\ tmp' = [tmp EXCEPT ![w] = NoTmp]

Done(w, result) ==
    /\ pc' = [pc EXCEPT ![w] = "settle"]
    /\ cb' = [cb EXCEPT ![w] = Append(@, result)]
    /\ tmp' = [tmp EXCEPT ![w] = NoTmp]

\* Line 181 (the test left of done(err) negated): a conflict is retried.
RetryOnConflict(c) == c.options.flags # "wx"

\* Lines 178-181: the answer to file.add(params) without a sha.
AddResponse(w) ==
    LET c == calls[w]
        exists == RepoExists(c.repo) /\ TipTree(c.branch)[c.path] # Absent
    IN  /\ pc[w] = "add"
        /\ \E o \in AddOutcomes(w) :
            /\ Answer(o)
            /\ IF o = "404"
               THEN Done(w, "Invalid repo") /\ StoreUnchanged
               ELSE IF o = "fail"
               THEN Done(w, "err") /\ StoreUnchanged
               ELSE IF o = "stale"
               THEN Done(w, "e409") /\ StoreUnchanged
               ELSE IF ~exists
               THEN Done(w, "ok") /\ ContentsCommit(c.branch, c.path, Content(w))
               ELSE IF RetryOnConflict(c)
               THEN /\ pc' = [pc EXCEPT ![w] = "sha"]
                    /\ UNCHANGED <<cb, tmp>>
                    /\ StoreUnchanged
               ELSE Done(w, "e422") /\ StoreUnchanged
        /\ Answered
        /\ UNCHANGED <<calls, statuses, queues, cargos>>

\* _getBlobSha, lines 276-283: the contents fetch gives the sha, and any error
\* falls through to _getBlobShaSlow.
ShaResponse(w) ==
    LET c == calls[w]
        sha == IF RepoExists(c.repo) THEN TipTree(c.branch)[c.path] ELSE Absent
    IN  /\ pc[w] = "sha"
        /\ \E o \in Outcomes(calls[w].repo) :
            /\ Answer(o)
            /\ IF o = "ok" /\ sha # Absent /\ ~TooLarge(sha)
               THEN /\ tmp' = [tmp EXCEPT ![w].sha = sha,
                                          ![w].tip = Tip(c.repo, c.branch)]
                    /\ pc' = [pc EXCEPT ![w] = "add2"]
               ELSE /\ pc' = [pc EXCEPT ![w] = "slow_ref"]
                    /\ UNCHANGED tmp
        /\ Answered
        /\ UNCHANGED <<calls, cb, statuses, queues, cargos>>
        /\ StoreUnchanged

\* _getBlobShaSlow, lines 285-305: ref, commit, recursive tree, then the entry
\* of the path; [0].sha of no entry throws.
SlowRefResponse(w) ==
    /\ pc[w] = "slow_ref"
    /\ \E o \in Outcomes(calls[w].repo) :
        /\ Answer(o)
        /\ IF o = "ok"
           THEN /\ tmp' = [tmp EXCEPT ![w].commit = ref[calls[w].branch]]
                /\ pc' = [pc EXCEPT ![w] = "slow_commit"]
                /\ UNCHANGED cb
           ELSE Done(w, "err")
    /\ Answered
    /\ UNCHANGED <<calls, statuses, queues, cargos>>
    /\ StoreUnchanged

SlowCommitResponse(w) ==
    /\ pc[w] = "slow_commit"
    /\ \E o \in Outcomes(calls[w].repo) :
        /\ Answer(o)
        /\ IF o = "ok"
           THEN pc' = [pc EXCEPT ![w] = "slow_tree"] /\ UNCHANGED <<cb, tmp>>
           ELSE Done(w, "err")
    /\ Answered
    /\ UNCHANGED <<calls, statuses, queues, cargos>>
    /\ StoreUnchanged

SlowTreeResponse(w) ==
    LET sha == commits[tmp[w].commit].tree[calls[w].path]
    IN  /\ pc[w] = "slow_tree"
        /\ \E o \in Outcomes(calls[w].repo) :
            /\ Answer(o)
            /\ IF o # "ok"
               THEN Done(w, "err")
               ELSE IF sha = Absent
               THEN /\ pc' = [pc EXCEPT ![w] = "thrown"]
                    /\ UNCHANGED <<cb, tmp>>
               ELSE /\ tmp' = [tmp EXCEPT ![w].sha = sha,
                                          ![w].tip = Tip(calls[w].repo, calls[w].branch)]
                    /\ pc' = [pc EXCEPT ![w] = "add2"]
                    /\ UNCHANGED cb
        /\ Answered
        /\ UNCHANGED <<calls, statuses, queues, cargos>>
        /\ StoreUnchanged

\* Lines 184-185: the answer to file.add(params) carrying params.sha; the
\* store rejects a sha that is not the path's current one.
Add2Response(w) ==
    LET c == calls[w]
    IN  /\ pc[w] = "add2"
        /\ \E o \in AddOutcomes(w) :
            /\ Answer(o)
            /\ IF o = "stale"
               THEN Done(w, "e409") /\ StoreUnchanged
               ELSE IF o # "ok"
               THEN Done(w, "err") /\ StoreUnchanged
               ELSE IF TipTree(c.branch)[c.path] = tmp[w].sha
               THEN Done(w, "ok") /\ ContentsCommit(c.branch, c.path, Content(w))
               ELSE Done(w, "e409") /\ StoreUnchanged
        /\ Answered
        /\ UNCHANGED <<calls, statuses, queues, cargos>>

\* Lines 193-196: the settle timer of done fires.
TimerFire(w) ==
    LET id == calls[w].id
        status == statuses[id]
    IN  /\ pc[w] = "settle"
        /\ pc' = [pc EXCEPT ![w] = "end"]
        /\ statuses' = [statuses EXCEPT ![id].writing = FALSE, ![id].next = FALSE]
        /\ queues' = IF status.next
                     THEN [queues EXCEPT ![id] = QueueResume(@)]
                     ELSE queues
        /\ Answered
        /\ UNCHANGED <<calls, cb, tmp, cargos, fails>>
        /\ StoreUnchanged

\* --------------------------------------------------------- the batched path
\* setImmediate(q.process) of the blob queue: _createBlob is called for every
\* started task (lines 315-324, the blob create request).
QueueImmediate(id) ==
    LET q == [queues[id] EXCEPT !.imm = FALSE]
    IN  /\ queues[id].imm
        /\ queues' = [queues EXCEPT ![id] = QueueProcess(q)]
        /\ pc' = [w \in Issued |-> IF w \in QueueStarted(q) THEN "blob" ELSE pc[w]]
        /\ Stepped
        /\ UNCHANGED <<calls, cb, tmp, statuses, cargos, fails>>
        /\ StoreUnchanged

\* Lines 162-165, the task callback of the blob queue: on an error the caller's
\* callback is called, and (with no return) the file, undefined then, is pushed
\* onto the cargo with the same callback.
PushesToCargo(o) == TRUE

\* Lines 324-328 and async.queue's next: the answer to the blob create.
BlobResponse(w) ==
    LET id == calls[w].id
        q == [queues[id] EXCEPT !.running = @ \ {w}]
    IN  /\ pc[w] = "blob"
        /\ env.fifo => \A v \in q.running : w < v
        /\ \E o \in Outcomes(calls[w].repo) :
            /\ Answer(o)
            /\ cb' = IF o # "ok" THEN [cb EXCEPT ![w] = Append(@, "err")] ELSE cb
            /\ IF PushesToCargo(o)
               THEN /\ cargos' = [cargos EXCEPT
                                    ![id] = CargoPush(@, [w |-> w, file |-> o = "ok"])]
                    /\ pc' = [x \in Issued |-> IF x = w THEN "cargo"
                                          ELSE IF x \in QueueStarted(q) THEN "blob"
                                          ELSE pc[x]]
               ELSE /\ cargos' = cargos
                    /\ pc' = [x \in Issued |-> IF x = w THEN "end"
                                          ELSE IF x \in QueueStarted(q) THEN "blob"
                                          ELSE pc[x]]
        /\ queues' = [queues EXCEPT ![id] = QueueProcess(q)]
        /\ Answered
        /\ UNCHANGED <<calls, tmp, statuses>>
        /\ StoreUnchanged

\* setImmediate(cargo.process).
CargoImmediate(id) ==
    /\ cargos[id].imm
    /\ cargos' = [cargos EXCEPT ![id] = CargoProcess([@ EXCEPT !.imm = FALSE])]
    /\ Stepped
    /\ UNCHANGED <<calls, pc, cb, tmp, statuses, queues, fails>>
    /\ StoreUnchanged

BatchWrites(c) == {c.batch[i].w : i \in 1..Len(c.batch)}

\* The worker callback of the cargo: every entry's callback gets the result,
\* then cargo.process takes the next batch, or, with no entry left, calls
\* cargo.drain (line 141), which clears status.queueing.
Drain(status) == [status EXCEPT !.queueing = FALSE]

BatchCallback(id, result) ==
    LET c == cargos[id]
        c1 == [c EXCEPT !.working = FALSE, !.batch = <<>>, !.step = "idle",
                        !.base = 0, !.newTree = <<>>,
                        !.tree = [p \in Filenames |-> <<>>], !.newc = 0]
    IN  /\ cb' = [w \in Issued |-> IF w \in BatchWrites(c) THEN Append(cb[w], result)
                              ELSE cb[w]]
        /\ pc' = [w \in Issued |-> IF w \in BatchWrites(c) THEN "end" ELSE pc[w]]
        /\ cargos' = [cargos EXCEPT ![id] = CargoProcess(c1)]
        /\ statuses' = IF c1.tasks = <<>>
                       THEN [statuses EXCEPT ![id] = Drain(@)]
                       ELSE statuses

\* Where the store answers in order, a request of _commit is answered when
\* no blob create is waiting for its answer.
CommitAnswered(id) == env.fifo => queues[id].running = {}

\* _commit step 1, line 343: the answer to the branch ref fetch.
RefFetchResponse(id) ==
    LET c == cargos[id]
    IN  /\ c.step = "ref"
        /\ CommitAnswered(id)
        /\ \E o \in Outcomes(cargos[id].repo) :
            /\ Answer(o)
            /\ IF o = "ok"
               THEN /\ cargos' = [cargos EXCEPT ![id].base = ref[c.branch],
                                                ![id].step = "commit"]
                    /\ UNCHANGED <<pc, cb, statuses>>
               ELSE BatchCallback(id, "err")
        /\ Answered
        /\ UNCHANGED <<calls, tmp, queues>>
        /\ StoreUnchanged

\* An entry pushed after a failed blob conversion is undefined: file.path
\* (line 355) throws.
HasUndefined(batch) == \E i \in 1..Len(batch) : ~batch[i].file

\* Lines 353-360: the entry of the tree create request made from one file of
\* the batch; the blob of a file is the content of its write.
TreeEntry(file) == [path |-> calls[file.w].path, mode |-> "100644", type |-> "blob",
                    sha |-> file.w]

\* Lines 344-362: the answer to the fetch of the tip commit; the tree create
\* request is built from the batch.
CommitFetchResponse(id) ==
    LET c == cargos[id]
    IN  /\ c.step = "commit"
        /\ CommitAnswered(id)
        /\ \E o \in Outcomes(cargos[id].repo) :
            /\ Answer(o)
            /\ IF o # "ok"
               THEN BatchCallback(id, "err")
               ELSE /\ cargos' = IF HasUndefined(c.batch)
                                 THEN [cargos EXCEPT ![id].step = "thrown"]
                                 ELSE [cargos EXCEPT
                                         ![id].newTree = [i \in 1..Len(c.batch) |->
                                                            TreeEntry(c.batch[i])],
                                         ![id].step = "tree"]
                    /\ UNCHANGED <<pc, cb, statuses>>
        /\ Answered
        /\ UNCHANGED <<calls, tmp, queues>>
        /\ StoreUnchanged

RECURSIVE OverlayHonoursFlag(_, _)
OverlayHonoursFlag(tree, entries) ==
    IF entries = <<>> THEN tree
    ELSE LET n == Head(entries)
         IN  OverlayHonoursFlag(
                 IF calls[n.sha].options.flag = "wx" /\ tree[n.path] # Absent THEN tree
                 ELSE [tree EXCEPT ![n.path] = Content(n.sha)],
                 Tail(entries))

\* The store's tree create: base_tree overlaid with the entries of the
\* request, in order.
RECURSIVE Overlay(_, _)
Overlay(tree, entries) ==
    IF entries = <<>> THEN tree
    ELSE Overlay([tree EXCEPT ![Head(entries).path] = Content(Head(entries).sha)],
                 Tail(entries))

\* Lines 362-364: the answer to the tree create; on an error tree is undefined
\* and tree.sha throws.
TreeCreateResponse(id) ==
    LET c == cargos[id]
    IN  /\ c.step = "tree"
        /\ CommitAnswered(id)
        /\ \E o \in Outcomes(cargos[id].repo) :
            /\ Answer(o)
            /\ cargos' = IF o = "ok"
                         THEN [cargos EXCEPT
                                 ![id].tree = Overlay(commits[c.base].tree, c.newTree),
                                 ![id].step = "mkcommit"]
                         ELSE [cargos EXCEPT ![id].step = "thrown"]
        /\ Answered
        /\ UNCHANGED <<calls, pc, cb, tmp, statuses, queues>>
        /\ StoreUnchanged

OrphanCommit(c) == [parent |-> 0, tree |-> c.tree]

\* Lines 366-373: newCommit, the tree just created with the fetched tip commit
\* as its only parent.
NewCommit(c) == [parent |-> c.base, tree |-> c.tree]

\* Lines 366-375: the answer to the commit create.
CommitCreateResponse(id) ==
    LET c == cargos[id]
    IN  /\ c.step = "mkcommit"
        /\ CommitAnswered(id)
        /\ \E o \in Outcomes(cargos[id].repo) :
            /\ Answer(o)
            /\ IF o = "ok"
               THEN /\ commits' = Append(commits, NewCommit(c))
                    /\ cargos' = [cargos EXCEPT ![id].newc = Len(commits) + 1,
                                                ![id].step = "update"]
                    /\ UNCHANGED <<pc, cb, statuses>>
               ELSE BatchCallback(id, "err") /\ UNCHANGED commits
        /\ Answered
        /\ UNCHANGED <<calls, tmp, queues, ref, everTip>>

\* Lines 376-383: the answer to the forced ref update, then the callback.
RefUpdateResponse(id) ==
    LET c == cargos[id]
    IN  /\ c.step = "update"
        /\ CommitAnswered(id)
        /\ \E o \in Outcomes(cargos[id].repo) :
            /\ Answer(o)
            /\ IF o = "ok"
               THEN /\ ref' = [ref EXCEPT ![c.branch] = c.newc]
                    /\ everTip' = [everTip EXCEPT ![c.branch] = @ \cup {c.newc}]
                    /\ BatchCallback(id, "ok")
               ELSE BatchCallback(id, "err") /\ UNCHANGED <<ref, everTip>>
        /\ Answered
        /\ UNCHANGED <<calls, tmp, queues, commits>>

\* ----------------------------------------------------------------- readFile
\* The writes to the path of a read that had called back without error when
\* readFile was called.
Completed(repo, path, branch) ==
    {v \in Writes : /\ calls[v].repo = repo /\ calls[v].path = path
                    /\ calls[v].branch = branch /\ cb[v] = <<"ok">>}

\* Lines 221-251: the contents fetch is sent; no coordination state is read
\* or written.
ReadFile(inst, filename, branch) ==
    /\ Cardinality(Reads) < env.reads
    /\ env.calling # "closed"
    /\ env.after => Cardinality(Writes) = env.writes
    /\ inst \in env.insts
    /\ filename \in env.paths
    /\ branch \in env.branches
    /\ calls' = Append(calls, [kind |-> "read", filename |-> filename,
                               path |-> SentPath(filename),
                               repo |-> RepoName(inst), id |-> Id(inst, branch),
                               branch |-> branch, large |-> FALSE, safe |-> FALSE,
                               options |-> DefaultOptions,
                               seen |-> Completed(RepoName(inst), SentPath(filename),
                                                  branch)])
    /\ pc' = Append(pc, "fetch")
    /\ cb' = Append(cb, <<>>)
    /\ tmp' = Append(tmp, NoTmp)
    /\ UNCHANGED <<statuses, queues, cargos, fails, env>>
    /\ StoreUnchanged

\* callback(err) or, from encodeContents (lines 267-273), callback(null, content).
ReadDone(w, result, data) ==
    /\ pc' = [pc EXCEPT ![w] = "end"]
    /\ cb' = [cb EXCEPT ![w] = Append(@, result)]
    /\ tmp' = [tmp EXCEPT ![w] = [NoTmp EXCEPT !.data = data]]

\* Lines 251-257: the answer to the contents fetch. 404 (no such repository,
\* no such path) is 'File not found'; any other error goes the long way round.
FetchResponse(w) ==
    LET c == calls[w]
        content == IF RepoExists(c.repo) THEN TipTree(c.branch)[c.path] ELSE Absent
    IN  /\ pc[w] = "fetch"
        /\ \E o \in Outcomes(c.repo) :
            /\ Answer(o)
            /\ IF o = "404" \/ (o = "ok" /\ content = Absent)
               THEN ReadDone(w, "File not found", {})
               ELSE IF o = "ok" /\ ~TooLarge(content)
               THEN ReadDone(w, "ok", {Decode(content)})
               ELSE /\ pc' = [pc EXCEPT ![w] = "rslow_ref"]
                    /\ UNCHANGED <<cb, tmp>>
        /\ Answered
        /\ UNCHANGED <<calls, statuses, queues, cargos>>
        /\ StoreUnchanged

\* _getBlobShaSlow called by readFile, lines 258 and 285-305.
ReadSlowRefResponse(w) ==
    /\ pc[w] = "rslow_ref"
    /\ \E o \in Outcomes(calls[w].repo) :
        /\ Answer(o)
        /\ IF o = "ok"
           THEN /\ tmp' = [tmp EXCEPT ![w].commit = ref[calls[w].branch]]
                /\ pc' = [pc EXCEPT ![w] = "rslow_commit"]
                /\ UNCHANGED cb
           ELSE ReadDone(w, "err", {})
    /\ Answered
    /\ UNCHANGED <<calls, statuses, queues, cargos>>
    /\ StoreUnchanged

ReadSlowCommitResponse(w) ==
    /\ pc[w] = "rslow_commit"
    /\ \E o \in Outcomes(calls[w].repo) :
        /\ Answer(o)
        /\ IF o = "ok"
           THEN pc' = [pc EXCEPT ![w] = "rslow_tree"] /\ UNCHANGED <<cb, tmp>>
           ELSE ReadDone(w, "err", {})
    /\ Answered
    /\ UNCHANGED <<calls, statuses, queues, cargos>>
    /\ StoreUnchanged

\* Lines 298-303: [0].sha of no matching entry throws; else the blob is fetched.
ReadSlowTreeResponse(w) ==
    LET sha == commits[tmp[w].commit].tree[calls[w].path]
    IN  /\ pc[w] = "rslow_tree"
        /\ \E o \in Outcomes(calls[w].repo) :
            /\ Answer(o)
            /\ IF o # "ok"
               THEN ReadDone(w, "err", {})
               ELSE IF sha = Absent
               THEN /\ pc' = [pc EXCEPT ![w] = "thrown"]
                    /\ UNCHANGED <<cb, tmp>>
               ELSE /\ tmp' = [tmp EXCEPT ![w].sha = sha]
                    /\ pc' = [pc EXCEPT ![w] = "rblob"]
                    /\ UNCHANGED cb
        /\ Answered
        /\ UNCHANGED <<calls, statuses, queues, cargos>>
        /\ StoreUnchanged

\* Lines 260-263: the answer to the blob fetch.
ReadBlobResponse(w) ==
    /\ pc[w] = "rblob"
    /\ \E o \in Outcomes(calls[w].repo) :
        /\ Answer(o)
        /\ IF o = "ok"
           THEN ReadDone(w, "ok", {Decode(tmp[w].sha)})
           ELSE ReadDone(w, "err", {})
    /\ Answered
    /\ UNCHANGED <<calls, statuses, queues, cargos>>
    /\ StoreUnchanged

InitEnv(e, budget) ==
    /\ calls = <<>>
    /\ pc = <<>>
    /\ cb = <<>>
    /\ tmp = <<>>
    /\ statuses = <<>>
    /\ queues = <<>>
    /\ cargos = <<>>
    /\ ref = [b \in Branches |-> 1]
    /\ commits = << [parent |-> 0, tree |-> InitTree] >>
    /\ fails = budget
    /\ everTip = [b \in Branches |-> {1}]
    /\ env = e

\* Callers that write through the given instances to the given paths of
\* master, no call bound to a burst or planned, no read, no content above the
\* size ceiling.
Callers(insts, paths, calling) ==
    [insts |-> insts, paths |-> paths, branches |-> {"master"}, calling |-> calling,
     burst |-> MaxCalls, plan |-> <<>>, used |-> {}, writes |-> MaxWrites,
     reads |-> 0, large |-> FALSE, fifo |-> FALSE, prompt |-> FALSE, track |-> FALSE,
     keep |-> FALSE, after |-> FALSE]

InitWith(insts, paths, calling, budget) == InitEnv(Callers(insts, paths, calling), budget)

\* Two instances of one repository, writes at any time, failures injected.
Init == InitWith({"fs", "fs2"}, {"a.txt", "b.txt"}, "any", MaxFails)

\* All writeFile calls in one synchronous burst, the store failing no call.
InitBurst == InitWith({"fs", "fs2"}, Paths, "burst", 0)

\* An instance of a repository that does not exist beside a good one.
InitInvalid == InitWith({"fs", "bad"}, {"a.txt", "b.txt"}, "any", 0)
Next ==
    \/ \E inst \in Instances, path \in Filenames, branch \in Branches,
          safe \in BOOLEAN, opts \in OptionSets, large \in BOOLEAN :
            WriteFile(inst, path, branch, safe, opts, large)
    \/ \E w \in Issued : AddResponse(w)
    \/ \E w \in Issued : ShaResponse(w)
    \/ \E w \in Issued : SlowRefResponse(w)
    \/ \E w \in Issued : SlowCommitResponse(w)
    \/ \E w \in Issued : SlowTreeResponse(w)
    \/ \E w \in Issued : Add2Response(w)
    \/ \E w \in Issued : TimerFire(w)
    \/ \E w \in Issued : BlobResponse(w)
    \/ \E id \in DOMAIN cargos : QueueImmediate(id)
    \/ \E id \in DOMAIN cargos : CargoImmediate(id)
    \/ \E id \in DOMAIN cargos : RefFetchResponse(id)
    \/ \E id \in DOMAIN cargos : CommitFetchResponse(id)
    \/ \E id \in DOMAIN cargos : TreeCreateResponse(id)
    \/ \E id \in DOMAIN cargos : CommitCreateResponse(id)
    \/ \E id \in DOMAIN cargos : RefUpdateResponse(id)

Spec == Init /\ [][Next]_vars

SpecBurst == InitBurst /\ [][Next]_vars

SpecInvalid == InitInvalid /\ [][Next]_vars

\* One instance, options.safe kept in the record of each call.
InitRoute ==
    InitEnv([Callers({"fs"}, {"a.txt", "b.txt"}, "any") EXCEPT !.track = TRUE],
            MaxFails)

\* One instance making enough writes to fill a batch in one burst and more
\* writes at any time after it, the store answering the blob creates in the
\* order of the requests and before the requests of a commit, failing no call.
InitBatch ==
    InitEnv([Callers({"fs"}, {"a.txt"}, "burst") EXCEPT
               !.burst = CargoPayload, !.writes = MaxBatchWrites, !.fifo = TRUE], 0)

\* One instance writing one path that exists, the options of every call
\* kept, the store failing no call.
InitCreateOnly ==
    InitEnv([Callers({"fs"}, {"a.txt"}, "any") EXCEPT !.keep = TRUE], 0)

\* One instance writing one path of two branches, options.safe kept in the
\* record of a call.
InitBranches ==
    InitEnv([Callers({"fs"}, {"a.txt"}, "any") EXCEPT
               !.branches = Branches, !.track = TRUE], MaxFails)

\* One instance writing, in one synchronous loop, one path of master often
\* enough to fill the blob queue of the branch and leave a write waiting, and
\* then the path of dev; the store answers the blob creates of a branch in the
\* order of the requests and before the requests of a commit, every answer
\* alone, and fails no call.
InitPool ==
    InitEnv([Callers({"fs"}, {"a.txt"}, "burst") EXCEPT
               !.branches = Branches,
               !.plan = [i \in 1..MaxPoolWrites |->
                           IF i < MaxPoolWrites THEN "master" ELSE "dev"],
               !.burst = MaxPoolWrites, !.writes = MaxPoolWrites, !.fifo = TRUE,
               !.prompt = TRUE], 0)

SpecRoute == InitRoute /\ [][Next]_vars

SpecPool == InitPool /\ [][Next]_vars

SpecBranches == InitBranches /\ [][Next]_vars

SpecCreateOnly == InitCreateOnly /\ [][Next]_vars

SpecBatch == InitBatch /\ [][Next]_vars

\* One instance writing and reading, contents above the size ceiling among
\* the writes, failures injected.
InitRead ==
    InitEnv([Callers({"fs"}, {"a.txt", "b.txt"}, "any") EXCEPT
               !.writes = MaxWrites - 1, !.reads = MaxReads, !.large = TRUE],
            MaxFails)

\* Writes and a read through an instance of the repository and one of a
\* repository that does not exist.
InitReadInvalid ==
    InitEnv([Callers({"fs", "bad"}, {"a.txt", "b.txt"}, "any") EXCEPT
               !.writes = MaxWrites - 1, !.reads = MaxReads], 0)

\* One instance making its writeFile calls and then reading, the store failing
\* no call.
InitReadAfter ==
    InitEnv([Callers({"fs"}, {"a.txt", "b.txt"}, "any") EXCEPT
               !.reads = MaxReads, !.after = TRUE], 0)

\* One instance writing and reading a path with and without a preceding slash.
InitSlash ==
    InitEnv([Callers({"fs"}, {"a.txt", "/a.txt"}, "any") EXCEPT
               !.writes = MaxWrites - 1, !.reads = MaxReads], 0)

NextRead ==
    \/ Next
    \/ \E inst \in Instances, filename \in Filenames, branch \in Branches :
            ReadFile(inst, filename, branch)
    \/ \E w \in Issued : FetchResponse(w)
    \/ \E w \in Issued : ReadSlowRefResponse(w)
    \/ \E w \in Issued : ReadSlowCommitResponse(w)
    \/ \E w \in Issued : ReadSlowTreeResponse(w)
    \/ \E w \in Issued : ReadBlobResponse(w)

SpecRead == InitRead /\ [][NextRead]_vars

SpecReadAfter == InitReadAfter /\ [][NextRead]_vars

SpecReadInvalid == InitReadInvalid /\ [][NextRead]_vars

SpecSlash == InitSlash /\ [][NextRead]_vars

\* ----------------------------------------------------------------- claims
FastPcs == {"add", "sha", "slow_ref", "slow_commit", "slow_tree", "add2"}

\* The fast-path writes of a repository's branch between dispatch and done.
FastInFlight(repo, branch) ==
    {w \in Issued : calls[w].repo = repo /\ calls[w].branch = branch /\ pc[w] \in FastPcs}

\* ... and until their settle timer has fired.
FastBusy(repo, branch) ==
    {w \in Issued : /\ calls[w].repo = repo
                    /\ calls[w].branch = branch
                    /\ pc[w] \in FastPcs \cup {"settle"}}

CommitSteps == {"ref", "commit", "tree", "mkcommit", "update"}

\* The cargos running _commit for a repository's branch.
Committing(repo, branch) ==
    {id \in DOMAIN cargos : /\ cargos[id].repo = repo
                            /\ cargos[id].branch = branch
                            /\ cargos[id].step \in CommitSteps}

Repos == {RepoName(i) : i \in Instances}

RECURSIVE History(_)
History(c) == IF c = 0 THEN {} ELSE {c} \cup History(commits[c].parent)

\* C1: a fast-path write (dispatch to the end of its settle delay) and a batch
\* commit of the same repository and branch are never in progress together.
C1_FastAndBatchExclusive ==
    \A r \in Repos, b \in Branches : FastBusy(r, b) = {} \/ Committing(r, b) = {}

\* C2: no commit that has been the branch tip is dropped from the branch's
\* history by a later forced ref update.
C2_NoTipDropped == \A b \in Branches : everTip[b] \subseteq History(ref[b])
DistinctPaths == \A v, w \in Issued : v # w => calls[v].path # calls[w].path

AllCalledBack == \A w \in Issued : cb[w] # <<>>

NoneCreateOnly == \A w \in Issued : calls[w].options.flags # "wx"

AllAtTip == \A w \in Issued : TipTree(calls[w].branch)[calls[w].path] = Content(w)

\* C3: N writeFile calls to N distinct paths made in one burst on one instance,
\* the store failing no call: every callback receives no error, and once all
\* have run every path holds its written content at the branch tip.
C3_BurstAllWritten ==
    (Cardinality(env.used) = 1 /\ DistinctPaths /\ NoneCreateOnly) =>
        /\ \A w \in Issued : cb[w] \in {<<>>, <<"ok">>}
        /\ (env.calling = "closed" /\ AllCalledBack) => AllAtTip

C3_Witness ==
    /\ Cardinality(env.used) = 1 /\ DistinctPaths /\ NoneCreateOnly
    /\ Len(calls) = Cardinality(Paths)
    /\ AllCalledBack
    /\ AllAtTip
    /\ \E w \in Issued : calls[w].path = "a.txt" /\ w # 1

\* C4: the same through two instances of one repository: one status, queue and
\* cargo coordinate them, every call succeeds and every path is at the tip.
C4_TwoInstancesShareCoordination ==
    (Cardinality(env.used) = 2 /\ DistinctPaths /\ NoneCreateOnly) =>
        /\ Cardinality(DOMAIN statuses) = 1
        /\ Cardinality(DOMAIN queues) = 1
        /\ Cardinality(DOMAIN cargos) = 1
        /\ \A w \in Issued : cb[w] \in {<<>>, <<"ok">>}
        /\ (env.calling = "closed" /\ AllCalledBack) => AllAtTip

C4_Witness ==
    /\ Cardinality(env.used) = 2 /\ DistinctPaths /\ NoneCreateOnly
    /\ Len(calls) = Cardinality(Paths)
    /\ AllCalledBack
    /\ AllAtTip

\* C5: at most one fast-path write (add, sha lookup, retried add) is in flight
\* per repository and branch.
C5_OneFastWriteInFlight ==
    \A r \in Repos, b \in Branches : Cardinality(FastInFlight(r, b)) <= 1

C5_Witness ==
    /\ Cardinality(env.used) = 2
    /\ \E v, w \in Issued : pc[v] = "add2" /\ pc[w] = "queued" /\ calls[v].id = calls[w].id

\* C6: at most one batch per repository and branch is executing _commit, and
\* a ref fetch for a new batch starts only from an idle cargo or in the step
\* in which the previous batch's _commit calls back.
C6_OneBatchCommitting ==
    /\ [](\A r \in Repos, b \in Branches : Cardinality(Committing(r, b)) <= 1)
    /\ [][\A id \in DOMAIN cargos :
            (cargos'[id].step = "ref" /\ cargos'[id].batch # cargos[id].batch) =>
                \/ cargos[id].step = "idle"
                \/ /\ cargos[id].step \in CommitSteps
                   /\ \A w \in BatchWrites(cargos[id]) : Len(cb'[w]) = Len(cb[w]) + 1]_vars

C6_Witness ==
    \E id \in DOMAIN cargos :
        /\ cargos[id].step = "update"
        /\ cargos[id].tasks # <<>>
        /\ Len(cargos[id].batch) > 1

\* C7: the callback of every writeFile call is invoked at most once.
C7_CallbackAtMostOnce == \A w \in Issued : Len(cb[w]) <= 1

\* Some store response, timer or setImmediate is still to come.
EventPending ==
    \/ \E w \in Issued : pc[w] \in FastPcs \cup {"settle", "blob"}
    \/ \E id \in DOMAIN cargos :
        queues[id].imm \/ cargos[id].imm \/ cargos[id].step \in CommitSteps

\* C8: every store call having answered and every timer fired, every submitted
\* write has had its callback invoked.
C8_EveryWriteCalledBack == ~EventPending => AllCalledBack

\* C9: a fast-path write whose create was rejected as a conflict and that is
\* not create-only calls back without error from its retried add (the store
\* injecting no failure there), its content then at the branch tip.
C9_ConflictRetrySucceeds ==
    [][\A w \in Issued :
         (pc[w] = "add2" /\ pc'[w] = "settle" /\ fails' = fails) =>
            /\ cb'[w] = <<"ok">>
            /\ commits'[ref'[calls[w].branch]].tree[calls[w].path] = Content(w)]_vars

\* C10: a fast-path write with the documented create-only option, flag 'wx',
\* whose create is rejected because the path exists resolves no identifier
\* and issues no second add.
C10_CreateOnlyNotRetried ==
    \A w \in Issued :
        calls[w].options.flag = "wx" => pc[w] \notin (FastPcs \ {"add"})

\* The writes to the path of read r, and those among them that had not called
\* back without error when r was called.
WritesTo(r) ==
    {v \in Writes : /\ calls[v].repo = calls[r].repo /\ calls[v].path = calls[r].path
                    /\ calls[v].branch = calls[r].branch}

Intervening(r) == WritesTo(r) \ calls[r].seen

\* C11: a readFile of a path called after a write of it has completed without
\* error, no other write to the path intervening, calls back with exactly the
\* data written (with an error only when the store fails a call of the read).
C11_ReadYieldsWritten ==
    \A r \in Reads :
        (calls[r].seen # {} /\ Intervening(r) = {} /\ cb[r] # <<>>) =>
            \/ /\ cb[r] = <<"ok">>
               /\ tmp[r].data # {}
               /\ tmp[r].data \subseteq {Data(v) : v \in calls[r].seen}
            \/ cb[r] = <<"err">>

\* C12: a readFile of a path that has never existed calls back with 'File not
\* found' (or the error of a failed store call of its fallback walk), also
\* when the absence is found by the walk; it never throws.
C12_MissingIsFileNotFound ==
    \A r \in Reads :
        (RepoExists(calls[r].repo) /\ WritesTo(r) = {}
            /\ InitTree[calls[r].path] = Absent) =>
                /\ pc[r] # "thrown"
                /\ cb[r] \in {<<>>, <<"File not found">>, <<"err">>}

\* C13: every writeFile against a repository that does not exist calls back
\* with 'Invalid repo', on the fast path and on the batched path.
C13_InvalidRepoWrite ==
    \A w \in Writes :
        ~RepoExists(calls[w].repo) =>
            \A i \in 1..Len(cb[w]) : cb[w][i] = "Invalid repo"

\* C14: when a writeFile, the only one of its repository and branch, has
\* failed with 'Invalid repo', the coordination state of the branch is what
\* it was before the call: nothing writing or queueing, no deferred resume,
\* the blob queue running and empty.
C14_InvalidRepoLeavesState ==
    \A w \in Writes :
        (cb[w] = <<"Invalid repo">> /\ {v \in Writes : calls[v].id = calls[w].id} = {w}) =>
            /\ statuses[calls[w].id] = NewStatus
            /\ queues[calls[w].id] = NewQueue

\* C15: a readFile against a repository that does not exist calls back with
\* an error other than the 'File not found' of a missing path.
C15_InvalidRepoReadDistinct ==
    \A r \in Reads :
        (~RepoExists(calls[r].repo) /\ cb[r] # <<>>) => cb[r] # <<"File not found">>

\* C16: the path a writeFile or readFile sends to the store is the filename
\* with its single leading slash stripped.
C16_LeadingSlashStripped ==
    \A w \in Issued : calls[w].path = StripSlash(calls[w].filename)

\* The status of a branch before its first call is the empty object.
StatusOf(id) == Lookup(statuses, id, NewStatus)

\* Where a queued write is: waiting in the blob queue, being converted, or an
\* entry of the cargo (waiting or in the batch being committed).
Placed(w) ==
    LET id == calls[w].id
    IN  /\ pc[w] = "queued" => \E i \in 1..Len(queues[id].tasks) : queues[id].tasks[i] = w
        /\ pc[w] = "blob" => w \in queues[id].running
        /\ pc[w] = "cargo" =>
              \E i \in 1..Len(cargos[id].tasks \o cargos[id].batch) :
                  (cargos[id].tasks \o cargos[id].batch)[i].w = w

\* C17: a writeFile call takes the fast path, setting writing, exactly when at
\* the call writing and queueing are false and options.safe is not set; else
\* it is pushed onto the blob queue with queueing set; a queued write is never
\* discarded.
C17_RoutingRule ==
    /\ [](\A w \in Writes : Placed(w))
    /\ [][(Len(calls') = Len(calls) + 1 /\ calls'[Len(calls')].kind = "write") =>
            LET w == Len(calls')
                id == calls'[w].id
            IN  IF ~StatusOf(id).writing /\ ~StatusOf(id).queueing /\ ~calls'[w].safe
                THEN /\ pc'[w] = "add"
                     /\ statuses'[id].writing
                     /\ ~statuses'[id].queueing
                     /\ queues'[id].tasks = Lookup(queues, id, NewQueue).tasks
                ELSE /\ pc'[w] = "queued"
                     /\ statuses'[id].queueing
                     /\ statuses'[id].writing = StatusOf(id).writing
                     /\ queues'[id].tasks = Append(Lookup(queues, id, NewQueue).tasks, w)]_vars

C17_Witness ==
    \E u, v, w \in Writes :
        /\ calls[u].safe /\ cb[u] = <<"ok">> /\ pc[u] = "end"
        /\ ~calls[v].safe /\ pc[v] = "add" /\ u < v
        /\ ~calls[w].safe /\ pc[w] = "queued" /\ v < w

\* C18: the deferred resume of a branch is registered, pausing the blob queue,
\* by a write that arrives while writing is true and none is registered; a
\* write arriving while one is registered only joins the queue; the
\* registered action is invoked, resuming the queue and emptying the slot,
\* only when the settle timer clears writing.
C18_OneDeferredResume ==
    /\ [](\A id \in DOMAIN statuses :
            statuses[id].next => statuses[id].writing /\ queues[id].paused)
    /\ [][\A id \in DOMAIN statuses' :
            LET called == /\ Len(calls') = Len(calls) + 1
                          /\ calls'[Len(calls')].id = id
            IN  /\ (~StatusOf(id).next /\ statuses'[id].next) =>
                        called /\ StatusOf(id).writing /\ queues'[id].paused
                /\ (called /\ StatusOf(id).writing) =>
                        /\ statuses'[id].next
                        /\ queues'[id].paused
                        /\ queues'[id].tasks = Append(queues[id].tasks, Len(calls'))
                /\ (StatusOf(id).next /\ ~statuses'[id].next) =>
                        /\ StatusOf(id).writing /\ ~statuses'[id].writing
                        /\ ~queues'[id].paused /\ queues'[id].imm]_vars

C18_Witness ==
    \E id \in DOMAIN statuses :
        /\ statuses[id].next
        /\ Len(queues[id].tasks) >= 2
        /\ \E v \in Writes : calls[v].id = id /\ pc[v] = "settle"

\* C19: after the callback of a fast-path write (success or failure) writing
\* stays true until the settle timer fires, which alone clears it and invokes
\* the deferred resume; every write submitted since the fast-path write was
\* dispatched waits in the blob queue, its conversion not started, until then.
C19_SettleDelay ==
    /\ [](\A v \in Writes :
            pc[v] = "settle" =>
                /\ statuses[calls[v].id].writing
                /\ \A w \in Writes :
                      (w > v /\ calls[w].id = calls[v].id) => pc[w] = "queued")
    /\ [][\A id \in DOMAIN statuses :
            (statuses[id].writing /\ ~statuses'[id].writing) =>
                /\ \E v \in Writes :
                      calls[v].id = id /\ pc[v] = "settle" /\ pc'[v] = "end"
                /\ ~statuses'[id].next
                /\ statuses[id].next => (queues'[id].imm /\ ~queues'[id].paused)]_vars

C19_Witness ==
    \E v, w \in Writes :
        /\ pc[v] = "settle" /\ cb[v] = <<"err">>
        /\ w > v /\ calls[w].id = calls[v].id /\ pc[w] = "queued"

Occurrences(entries, w) == Cardinality({i \in 1..Len(entries) : entries[i].w = w})

\* C20: a batch holds at most 10 entries, the first 10 (or all) of those
\* waiting, the rest staying in order for later batches; every converted
\* entry is in exactly one place (waiting or in the batch being committed)
\* until its batch ends, when its callback is called once, its content in
\* the tree of the commit made.
C20_BatchOfTen ==
    /\ [](\A id \in DOMAIN cargos :
            /\ Len(cargos[id].batch) <= 10
            /\ \A w \in Writes :
                  calls[w].id = id =>
                      Occurrences(cargos[id].tasks \o cargos[id].batch, w)
                          = (IF pc[w] = "cargo" THEN 1 ELSE 0))
    /\ [][\A id \in DOMAIN cargos :
            LET c == cargos[id]
                d == cargos'[id]
                n == Min(Len(c.tasks), 10)
            IN  /\ (d.batch # c.batch /\ d.batch # <<>>) =>
                        /\ d.batch = SubSeq(c.tasks, 1, n)
                        /\ d.tasks = SubSeq(c.tasks, n + 1, Len(c.tasks))
                /\ (c.batch # <<>> /\ d.batch # c.batch) =>
                        \A w \in BatchWrites(c) :
                            /\ pc'[w] = "end"
                            /\ cb'[w] = <<"ok">>
                            /\ commits'[ref'[c.branch]].tree
                                  = Overlay(commits[c.base].tree, c.newTree)]_vars

C20_Witness ==
    \E id \in DOMAIN cargos :
        /\ Len(cargos[id].batch) = 10
        /\ cargos[id].tasks # <<>>
        /\ cargos[id].step = "update"
        /\ Len(calls) = MaxBatchWrites
        /\ pc[MaxBatchWrites] = "queued"
\* The last entry of a batch for a path, 0 when the batch has none.
LastFor(batch, path) ==
    LET at == {i \in 1..Len(batch) : calls[batch[i].w].path = path}
    IN  IF at = {} THEN 0 ELSE batch[CHOOSE i \in at : \A j \in at : j <= i].w

\* A step of the commit of a cargo: its position in _commit or its batch changes.
CommitMoves(id) ==
    \/ cargos[id].step # cargos'[id].step
    \/ cargos[id].batch # cargos'[id].batch

\* A batch is over: its callbacks are called, the cargo is idle or has started
\* the ref fetch of the next batch.
BatchOver(id) ==
    /\ cargos'[id].step \in {"idle", "ref"}
    /\ \A w \in BatchWrites(cargos[id]) : pc'[w] = "end"

\* C21: a batch commit makes its store calls in the order ref fetch, tip
\* commit fetch, tree create, commit create, ref update, each only after the
\* one before it succeeded; the tree request has one blob entry of mode 100644
\* per batch entry over the fetched tip's tree, the new commit has the fetched
\* tip as its only parent, and the ref update sets the branch ref to the new
\* commit whatever the ref has become.
C21_CommitStepsInOrder ==
    [][\A id \in DOMAIN cargos :
        LET c == cargos[id]
            d == cargos'[id]
        IN  CommitMoves(id) =>
              \/ /\ c.step = "idle"
                 /\ d.step = "ref"
                 /\ d.batch # <<>>
                 /\ UNCHANGED <<ref, commits, fails>>
              \/ /\ c.step = "ref"
                 /\ d.step = "commit"
                 /\ fails' = fails
                 /\ d.base = ref[c.branch]
                 /\ d.batch = c.batch
                 /\ UNCHANGED <<ref, commits>>
              \/ /\ c.step = "commit"
                 /\ d.step = "tree"
                 /\ fails' = fails
                 /\ Len(d.newTree) = Len(c.batch)
                 /\ \A i \in 1..Len(c.batch) :
                        /\ d.newTree[i].path = calls[c.batch[i].w].path
                        /\ d.newTree[i].mode = "100644"
                        /\ d.newTree[i].sha = c.batch[i].w
                 /\ d.base = c.base /\ d.batch = c.batch
                 /\ UNCHANGED <<ref, commits>>
              \/ /\ c.step = "tree"
                 /\ d.step = "mkcommit"
                 /\ fails' = fails
                 /\ d.tree = [p \in Filenames |->
                                IF LastFor(c.batch, p) = 0 THEN commits[c.base].tree[p]
                                ELSE Content(LastFor(c.batch, p))]
                 /\ d.base = c.base /\ d.batch = c.batch
                 /\ UNCHANGED <<ref, commits>>
              \/ /\ c.step = "mkcommit"
                 /\ d.step = "update"
                 /\ fails' = fails
                 /\ Len(commits') = Len(commits) + 1
                 /\ d.newc = Len(commits')
                 /\ commits'[d.newc].parent = c.base
                 /\ commits'[d.newc].tree = c.tree
                 /\ SubSeq(commits', 1, Len(commits)) = commits
                 /\ d.batch = c.batch
                 /\ UNCHANGED ref
              \/ /\ c.step = "update"
                 /\ fails' = fails
                 /\ BatchOver(id)
                 /\ ref' = [ref EXCEPT ![c.branch] = c.newc]
                 /\ \A w \in BatchWrites(c) : cb'[w] = Append(cb[w], "ok")
                 /\ UNCHANGED commits
              \/ /\ c.step \in CommitSteps
                 /\ fails' < fails
                 /\ d.step \in {"idle", "ref", "thrown"}
                 /\ UNCHANGED ref
              \/ /\ c.step = "commit"
                 /\ HasUndefined(c.batch)
                 /\ d.step = "thrown"
                 /\ UNCHANGED <<ref, commits>>]_vars

\* A batch has made its new commit and waits for the answer to its forced ref
\* update while the branch ref has moved on from the tip the batch fetched.
C21_Witness ==
    \E id \in DOMAIN cargos :
        /\ cargos[id].step = "update"
        /\ cargos[id].batch # <<>>
        /\ commits[cargos[id].newc].parent = cargos[id].base
        /\ ref[cargos[id].branch] # cargos[id].base

\* C22: when a step of a batch commit fails, no further step of it is made,
\* the callback of every write of the batch gets the error, and the branch ref
\* stays where it was.
C22_FailureAbortsBatch ==
    [][\A id \in DOMAIN cargos :
        (/\ cargos[id].step \in CommitSteps
         /\ CommitMoves(id)
         /\ fails' < fails)
        => /\ BatchOver(id)
           /\ \A w \in BatchWrites(cargos[id]) : cb'[w] = Append(cb[w], "err")
           /\ ref' = ref]_vars

\* C23: a failed batch commit does not wedge the batcher: every store call
\* having answered and every timer fired, no entry (the undefined ones of C30
\* apart) is left waiting in a cargo or in a batch, no cargo is busy, and
\* queueing is false again.
C23_NotWedgedAfterFailure ==
    \A id \in DOMAIN cargos :
        (~EventPending /\ ~HasUndefined(cargos[id].tasks \o cargos[id].batch))
        => /\ cargos[id].tasks = <<>>
           /\ cargos[id].batch = <<>>
           /\ ~cargos[id].working
           /\ ~statuses[id].queueing

\* The position of a fast-path write among its store calls: the add, the
\* lookup of the identifier (contents fetch, then ref, commit and tree), the
\* retried add, the callback.
FastRank(p) ==
    CASE p = "add" -> 1
      [] p = "sha" -> 2
      [] p = "slow_ref" -> 3
      [] p = "slow_commit" -> 4
      [] p = "slow_tree" -> 5
      [] p = "add2" -> 6
      [] OTHER -> 7

\* C24: a fast-path write makes at most two adds. A first add that fails other
\* than by the conflict calls back with that failure, no lookup made; after a
\* conflict there is one lookup and one retried add, and a failure of the
\* lookup or any answer to the retried add goes to the callback, nothing
\* retried.
C24_AtMostTwoAdds ==
    [][\A w \in Writes :
        (pc[w] \in FastPcs /\ pc'[w] # pc[w]) =>
            /\ FastRank(pc'[w]) > FastRank(pc[w])
            /\ pc[w] = "add" =>
                  \/ /\ pc'[w] = "sha"
                     /\ fails' = fails
                     /\ TipTree(calls[w].branch)[calls[w].path] # Absent
                     /\ cb'[w] = <<>>
                  \/ /\ pc'[w] = "settle"
                     /\ Len(cb'[w]) = 1
                     /\ fails' < fails => cb'[w] = <<"err">>
            /\ (pc[w] \in {"slow_ref", "slow_commit", "slow_tree"} /\ fails' < fails)
                  => pc'[w] = "settle" /\ cb'[w] = <<"err">>
            /\ pc[w] = "add2" =>
                  /\ pc'[w] = "settle"
                  /\ Len(cb'[w]) = 1
                  /\ fails' < fails => cb'[w] = <<"err">>
            /\ pc'[w] # "settle" => cb'[w] = <<>>]_vars

\* A write whose add met the conflict has looked the identifier up and waits
\* for the answer to its retried add, the store having failed a call.
C24_Witness ==
    \E w \in Writes :
        /\ pc[w] = "add2"
        /\ tmp[w].sha # <<>>
        /\ fails < MaxFails

\* The batched writes of a branch that are pending: waiting in the blob queue,
\* in conversion, waiting in the cargo or in the batch being committed.
PendingBatched(id) ==
    {w \in Writes : calls[w].id = id /\ pc[w] \in {"queued", "blob", "cargo"}}

\* C28: while a batched write of a branch is pending, the queueing flag of the
\* branch is true.
C28_PendingImpliesQueueing ==
    \A id \in DOMAIN statuses : PendingBatched(id) # {} => statuses[id].queueing

C30_NoEntryForFailedBlob ==
    \A id \in DOMAIN cargos : ~HasUndefined(cargos[id].tasks \o cargos[id].batch)

\* C25: a create-only write routed to the batched path is committed like any
\* other entry: when its batch's ref update is answered its callback gets no
\* error and the branch tip holds, at its path, the content of the last write
\* of the batch to that path, whether or not the path existed.
C25_QueuedCreateOnlyCommitted ==
    [][\A id \in DOMAIN cargos :
        LET c == cargos[id]
        IN  (c.step = "update" /\ CommitMoves(id) /\ fails' = fails) =>
              \A w \in BatchWrites(c) :
                calls[w].options.flag = "wx" =>
                    /\ cb'[w] = <<"ok">>
                    /\ commits'[ref'[c.branch]].tree[calls[w].path]
                         = Content(LastFor(c.batch, calls[w].path))]_vars

\* A create-only write to a path that exists is the last of its batch for the
\* path, and the batch waits for the answer to its ref update.
C25_Witness ==
    \E id \in DOMAIN cargos :
        /\ cargos[id].step = "update"
        /\ \E w \in BatchWrites(cargos[id]) :
            /\ calls[w].options.flag = "wx"
            /\ TipTree(cargos[id].branch)[calls[w].path] # Absent
            /\ LastFor(cargos[id].batch, calls[w].path) = w

\* The coordination state of an id is what it was, or the id is new.
Touched(id) ==
    \/ id \notin DOMAIN cargos
    \/ statuses'[id] # statuses[id]
    \/ queues'[id] # queues[id]
    \/ cargos'[id] # cargos[id]

\* No write to a branch of a repository is in flight, settling or pending.
BranchIdle(repo, branch) ==
    \A v \in Writes : (calls[v].repo = repo /\ calls[v].branch = branch) => pc[v] = "end"

\* C27: coordination state is per branch. A step changes the status, queue and
\* cargo of one branch at most, a writeFile call those of its own branch only;
\* a write without options.safe to a branch with no write under way takes the
\* fast path whatever the other branches are doing; a batch holds writes of
\* its own branch only, and a ref changes only by a write to its branch.
C27_BranchesIndependent ==
    [][/\ \A id1, id2 \in DOMAIN cargos' :
             (Touched(id1) /\ Touched(id2)) => id1 = id2
       /\ Len(calls') > Len(calls) =>
             LET w == Len(calls')
                 c == calls'[w]
             IN  /\ \A id \in DOMAIN cargos' :
                        Touched(id) => id = <<c.repo, c.branch>>
                 /\ (~c.safe /\ BranchIdle(c.repo, c.branch)) => pc'[w] = "add"
                 /\ UNCHANGED ref
       /\ \A id \in DOMAIN cargos :
             \A w \in BatchWrites(cargos[id]) : calls[w].branch = cargos[id].branch
       /\ \A b \in Branches :
             ref'[b] # ref[b] =>
                \E w \in Writes :
                    /\ calls[w].branch = b
                    /\ pc'[w] # pc[w]
                    /\ pc'[w] \in {"settle", "end"}]_vars

\* A write to dev is on the fast path, made while another branch of the
\* repository was writing with its queue paused and a write waiting in it.
C27_Witness ==
    \E w \in Writes, id \in DOMAIN statuses :
        /\ calls[w].branch = "dev"
        /\ pc[w] = "add"
        /\ id = <<calls[w].repo, "master">>
        /\ statuses[id].writing
        /\ queues[id].paused
        /\ queues[id].tasks # <<>>

\* The blob conversions of a repository in flight, over all its branches.
InFlight(repo) ==
    {w \in Writes : calls[w].repo = repo /\ pc[w] = "blob"}

C31_LaterWriteWins ==
    \A w1, w2 \in Writes :
        (/\ w1 < w2
         /\ calls[w1].safe /\ calls[w2].safe
         /\ calls[w1].id = calls[w2].id
         /\ calls[w1].path = calls[w2].path
         /\ \A v \in Writes :
                (calls[v].id = calls[w1].id /\ calls[v].path = calls[w1].path)
                    => v \in {w1, w2}
         /\ cb[w1] = <<"ok">> /\ cb[w2] = <<"ok">>)
        => TipTree(calls[w2].branch)[calls[w2].path] = Content(w2)

====
